---- MODULE Spec2Model ----
(***************************************************************************)
(* A model of the property-listing filter system:                          *)
(*   - the list route GET (query parsing, filter, sort, slice, response),  *)
(*   - the client component PropertyFilterSystem (filter state, buildQuery,*)
(*     fetchProperties and its overlapping fetches).                       *)
(* JavaScript strings are sequences of one-character strings, a value that *)
(* may be null/undefined is a sequence of length 0 (absent) or 1, and a    *)
(* JavaScript number is a record [t, v] with t one of "int", "nan", "inf". *)
(***************************************************************************)
EXTENDS Integers, Sequences, FiniteSets, TLC

VARIABLES
    backing,     \* the list route's module-level array `properties`
    req,         \* the query parameters of the last request to the list route
    resp,        \* what the last call of GET produced
    locale,      \* the component's state `locale`
    filters,     \* the component's state `filters`
    properties,  \* the component's state `properties`: the displayed records
    loading,     \* the component's state `loading`
    totalPages,  \* the component's state `totalPages`
    inflight,    \* the calls of fetch that have not settled yet
    issued,      \* how many calls of fetchProperties have been made
    lastLanded,  \* the call of fetch that settled last, and how
    queryString  \* the query string a request to the list route arrives with

routeVars == <<backing, req, resp>>

clientVars == <<locale, filters, properties, loading, totalPages, inflight,
                issued, lastLanded>>

vars == <<backing, req, resp, locale, filters, properties, loading,
          totalPages, inflight, issued, lastLanded, queryString>>

-----------------------------------------------------------------------------
(* Bounds of the model. *)

\* longest backing array of the list route
MaxRecords == 3

\* most calls of fetchProperties in one behaviour of the component
MaxFetches == 3

-----------------------------------------------------------------------------
(* JavaScript values. *)

None == <<>>

Some(x) == <<x>>

Int_(n) == [t |-> "int", v |-> n]

NaN == [t |-> "nan", v |-> 0]

Infinity == [t |-> "inf", v |-> 1]

NegInfinity == [t |-> "inf", v |-> -1]

\* JSON.stringify writes NaN and the infinities as null
JsonNull == [t |-> "null", v |-> 0]

IsInt(x) == x.t = "int"

\* x <= y on JavaScript numbers: false as soon as one side is NaN
NumLeq(x, y) ==
    CASE x.t = "nan" \/ y.t = "nan" -> FALSE
      [] x.t = "int" /\ y.t = "int" -> x.v <= y.v
      [] x.t = "inf" /\ y.t = "inf" -> x.v <= y.v
      [] x.t = "inf" -> x.v < 0
      [] OTHER -> y.v > 0

\* x - y, x * y and x + y on the numbers the route computes with
NumSub(x, y) ==
    CASE x.t = "nan" \/ y.t = "nan" -> NaN
      [] x.t = "int" /\ y.t = "int" -> Int_(x.v - y.v)
      [] x.t = "inf" /\ y.t = "inf" -> IF x.v = y.v THEN NaN ELSE x
      [] x.t = "inf" -> x
      [] OTHER -> [t |-> "inf", v |-> 0 - y.v]

NumMul(x, y) ==
    CASE x.t = "nan" \/ y.t = "nan" -> NaN
      [] x.t = "int" /\ y.t = "int" -> Int_(x.v * y.v)
      [] x.v = 0 \/ y.v = 0 -> NaN
      [] OTHER -> [t |-> "inf", v |-> IF (x.v > 0) = (y.v > 0) THEN 1 ELSE -1]

NumAdd(x, y) ==
    CASE x.t = "nan" \/ y.t = "nan" -> NaN
      [] x.t = "int" /\ y.t = "int" -> Int_(x.v + y.v)
      [] x.t = "inf" /\ y.t = "inf" -> IF x.v = y.v THEN x ELSE NaN
      [] x.t = "inf" -> x
      [] OTHER -> y

\* Math.ceil(n / d) for an array length n >= 0
CeilDiv(n, d) ==
    CASE d.t = "nan" -> NaN
      [] d.t = "inf" -> Int_(0)
      [] d.v = 0 -> IF n = 0 THEN NaN ELSE Infinity
      [] d.v > 0 -> Int_(0 - ((0 - n) \div d.v))
      [] OTHER -> Int_(0 - (n \div (0 - d.v)))

ToJson(x) == IF IsInt(x) THEN x ELSE JsonNull

-----------------------------------------------------------------------------
(* JavaScript strings. *)

UpperCase == <<"A","B","C","D","E","F","G","H","I","J","K","L","M",
               "N","O","P","Q","R","S","T","U","V","W","X","Y","Z">>

LowerCase == <<"a","b","c","d","e","f","g","h","i","j","k","l","m",
               "n","o","p","q","r","s","t","u","v","w","x","y","z">>

Digits == <<"0","1","2","3","4","5","6","7","8","9">>

\* the lower-case letter of every upper-case letter
LowerOf ==
    [c \in {UpperCase[i] : i \in 1..26} |->
        LowerCase[CHOOSE i \in 1..26 : UpperCase[i] = c]]

toLowerChar(c) == IF c \in DOMAIN LowerOf THEN LowerOf[c] ELSE c

\* String.prototype.toLowerCase
toLowerCase(s) == [i \in 1..Len(s) |-> toLowerChar(s[i])]

\* String.prototype.includes
includes(s, sub) ==
    \E i \in 0..(Len(s) - Len(sub)) : SubSeq(s, i + 1, i + Len(sub)) = sub

\* Array.prototype.includes
arrayIncludes(arr, x) == \E i \in 1..Len(arr) : arr[i] = x

\* the index of the first c in s, 0 when there is none
indexOf(s, c) ==
    LET at == {i \in 1..Len(s) : s[i] = c}
    IN IF at = {} THEN 0 ELSE CHOOSE i \in at : \A j \in at : i <= j

\* String.prototype.split(sep) for a one-character separator: the pieces
\* between the separators, "" gives [""]
RECURSIVE splitBy(_, _)
splitBy(s, sep) ==
    LET k == indexOf(s, sep)
    IN IF k = 0 THEN <<s>>
       ELSE <<SubSeq(s, 1, k - 1)>> \o splitBy(SubSeq(s, k + 1, Len(s)), sep)

\* String.prototype.split(',')
split(s) == splitBy(s, ",")

\* Array.prototype.join(',')
RECURSIVE join(_)
join(arr) ==
    IF Len(arr) = 0 THEN <<>>
    ELSE IF Len(arr) = 1 THEN arr[1]
    ELSE arr[1] \o <<",">> \o join(Tail(arr))

\* String.prototype.trim
RECURSIVE trim(_)
trim(s) ==
    IF Len(s) > 0 /\ s[1] = " " THEN trim(Tail(s))
    ELSE IF Len(s) > 0 /\ s[Len(s)] = " " THEN trim(SubSeq(s, 1, Len(s) - 1))
    ELSE s

\* the value of every decimal digit
ValueOf == [c \in {Digits[i] : i \in 1..10} |-> (CHOOSE i \in 1..10 : Digits[i] = c) - 1]

IsDigit(c) == c \in DOMAIN ValueOf

DigitValue(c) == ValueOf[c]

\* the longest prefix of s made of decimal digits
RECURSIVE DigitPrefix(_)
DigitPrefix(s) ==
    IF Len(s) > 0 /\ IsDigit(s[1]) THEN <<s[1]>> \o DigitPrefix(Tail(s)) ELSE <<>>

RECURSIVE DigitsValue(_)
DigitsValue(ds) ==
    IF Len(ds) = 0 THEN 0
    ELSE 10 * DigitsValue(SubSeq(ds, 1, Len(ds) - 1)) + DigitValue(ds[Len(ds)])

\* parseInt(s), radix 10: leading blanks, a sign, then digits; NaN without digits
parseInt(s) ==
    LET t    == trim(s)
        neg  == Len(t) > 0 /\ t[1] = "-"
        body == IF Len(t) > 0 /\ t[1] \in {"-", "+"} THEN Tail(t) ELSE t
        ds   == DigitPrefix(body)
    IN IF Len(ds) = 0 THEN NaN
       ELSE Int_(IF neg THEN 0 - DigitsValue(ds) ELSE DigitsValue(ds))

InfinityStr == <<"I","n","f","i","n","i","t","y">>

\* parseFloat(s) on strings without a fraction or an exponent: as parseInt, and
\* the literal Infinity
parseFloat(s) ==
    LET t    == trim(s)
        neg  == Len(t) > 0 /\ t[1] = "-"
        body == IF Len(t) > 0 /\ t[1] \in {"-", "+"} THEN Tail(t) ELSE t
    IN IF Len(body) >= 8 /\ SubSeq(body, 1, 8) = InfinityStr
       THEN (IF neg THEN NegInfinity ELSE Infinity)
       ELSE parseInt(s)

\* Number.prototype.toString for an integer
RECURSIVE natToString(_)
natToString(n) ==
    IF n < 10 THEN <<Digits[n + 1]>>
    ELSE natToString(n \div 10) \o <<Digits[(n % 10) + 1]>>

toString(n) == IF n < 0 THEN <<"-">> \o natToString(0 - n) ELSE natToString(n)

\* new Date(s).getTime() for a date string YYYY-MM-DD, as a day count that
\* grows with the instant; NaN (Invalid Date) for any other string
getTime(s) ==
    IF Len(s) = 10 /\ s[5] = "-" /\ s[8] = "-"
       /\ \A i \in {1, 2, 3, 4, 6, 7, 9, 10} : IsDigit(s[i])
    THEN Int_(372 * DigitsValue(SubSeq(s, 1, 4))
              + 31 * DigitsValue(SubSeq(s, 6, 7))
              + DigitsValue(SubSeq(s, 9, 10)))
    ELSE NaN

\* Array.prototype.slice(start, end) with its relative (negative) indices;
\* NaN counts as 0
RelIndex(x, len) ==
    CASE x.t = "nan" -> 0
      [] x.t = "inf" -> IF x.v < 0 THEN 0 ELSE len
      [] x.v < 0 -> IF len + x.v < 0 THEN 0 ELSE len + x.v
      [] OTHER -> IF x.v > len THEN len ELSE x.v

slice(arr, start, end) ==
    LET from == RelIndex(start, Len(arr))
        to   == RelIndex(end, Len(arr))
    IN SubSeq(arr, from + 1, to)

-----------------------------------------------------------------------------
(* The records of the list route and the requests sent to it. *)

S_villa == <<"v","i","l","l","a">>

S_Villa == <<"V","i","l","l","a">>

S_bang == <<"b","a","n","g">>

S_house == <<"h","o","u","s","e">>

S_apartment == <<"a","p","a","r","t","m","e","n","t">>

S_active == <<"a","c","t","i","v","e">>

S_draft == <<"d","r","a","f","t">>

S_archived == <<"a","r","c","h","i","v","e","d">>

S_price == <<"p","r","i","c","e">>

S_rating == <<"r","a","t","i","n","g">>

S_last_updated == <<"l","a","s","t","_","u","p","d","a","t","e","d">>

S_asc == <<"a","s","c">>

S_desc == <<"d","e","s","c">>

S_0 == <<"0">>

S_en == <<"e","n">>

S_kh == <<"k","h">>

\* the keys the client appends to its URLSearchParams
K_locale == <<"l","o","c","a","l","e">>

K_search == <<"s","e","a","r","c","h">>

K_sortBy == <<"s","o","r","t","B","y">>

K_sortDirection == <<"s","o","r","t","D","i","r","e","c","t","i","o","n">>

K_status == <<"s","t","a","t","u","s">>

K_type == <<"t","y","p","e">>

K_minPrice == <<"m","i","n","P","r","i","c","e">>

K_maxPrice == <<"m","a","x","P","r","i","c","e">>

K_page == <<"p","a","g","e">>

K_limit == <<"l","i","m","i","t">>

\* the keys the list route reads that the client does not append
K_sort_by == <<"s","o","r","t","_","b","y">>

K_order == <<"o","r","d","e","r">>

K_min_price == <<"m","i","n","_","p","r","i","c","e">>

K_max_price == <<"m","a","x","_","p","r","i","c","e">>

S_1 == <<"1">>

S_10 == <<"1","0">>

\* a property object: every field is present (Some) or undefined (None);
\* rating is in tenths
Prop(id, name, location, price, status, type, rating, last_updated) ==
    [id |-> id, name |-> name, location |-> location, price |-> price,
     status |-> status, type |-> type, rating |-> rating,
     last_updated |-> last_updated]

P1 == Prop(1,
           Some(<<"L","u","x","u","r","y"," ","S","u","n","s","e","t"," ",
                  "V","i","l","l","a">>),
           Some(<<"S","i","e","m"," ","R","e","a","p">>),
           Some(100), Some(S_active), Some(S_villa), Some(48),
           Some(<<"2","0","2","4","-","0","1","-","1","5">>))

P2 == Prop(2,
           Some(<<"M","o","d","e","r","n"," ","C","i","t","y"," ",
                  "A","p","a","r","t","m","e","n","t">>),
           Some(<<"B","a","n","g","k","o","k">>),
           Some(50), Some(S_draft), Some(S_apartment), Some(42),
           Some(<<"2","0","2","4","-","0","1","-","1","0">>))

P3 == Prop(3,
           Some(<<"B","e","a","c","h","f","r","o","n","t"," ",
                  "H","o","u","s","e">>),
           Some(<<"P","h","u","k","e","t">>),
           Some(200), Some(S_archived), Some(S_house), Some(42),
           Some(<<"2","0","2","4","-","0","1","-","2","0">>))

\* a property object without a name
P4 == Prop(4, None, Some(<<"B","a","n","g","k","o","k">>),
           Some(100), Some(S_active), Some(S_villa), Some(45),
           Some(<<"2","0","2","4","-","0","1","-","1","5">>))

\* a property object without location, price, status and type
P5 == Prop(5, Some(<<"G","a","r","d","e","n"," ","V","i","l","l","a">>), None,
           None, None, None, Some(40),
           Some(<<"2","0","2","4","-","0","1","-","0","5">>))

Pool == {P1, P2, P3, P4, P5}

\* every field of the record is present
Complete(p) ==
    /\ p.name # None /\ p.location # None /\ p.price # None
    /\ p.status # None /\ p.type # None

\* the arrays of distinct pool records, at most MaxRecords long
Backings ==
    UNION {{b \in [1..n -> Pool] : \A i, j \in 1..n : i # j => b[i] # b[j]} :
           n \in 0..MaxRecords}

ParamKeys == {"search", "sort_by", "order", "status", "type",
              "min_price", "max_price", "page", "limit"}

\* searchParams.get(key): the value, or null
get(params, key) == params[key]

NoParams == [k \in ParamKeys |-> None]

AllRequests ==
    [search    : {None, Some(S_Villa), Some(S_bang)},
     sort_by   : {None, Some(S_price), Some(S_rating), Some(<<"i","d">>)},
     order     : {None, Some(S_asc)},
     status    : {None, Some(<<>>), Some(S_active),
                  Some(S_active \o <<",">> \o S_draft)},
     type      : {None, Some(S_villa)},
     min_price : {None, Some(<<"6","0">>), Some(<<"1","0","0">>),
                  Some(<<"a","b","c">>)},
     max_price : {None, Some(<<"1","0","0">>)},
     page      : {None, Some(<<"2">>), Some(<<"3">>), Some(S_0),
                  Some(<<"-","1">>), Some(<<"x">>)},
     limit     : {None, Some(S_1), Some(<<"2">>), Some(S_0)}]

\* the request that spells out every fallback of GET
DefaultsRequest ==
    [search    |-> Some(<<>>),
     sort_by   |-> Some(S_last_updated),
     order     |-> Some(S_desc),
     status    |-> None,
     type      |-> None,
     min_price |-> Some(S_0),
     max_price |-> Some(InfinityStr),
     page      |-> Some(S_1),
     limit     |-> Some(S_10)]

\* the requests of the model: those that vary the filter parameters, those
\* that vary sorting and paging, those that set each parameter or not, and
\* the one that spells out the fallbacks
Requests ==
    {DefaultsRequest} \cup
    {r \in AllRequests :
        \/ r.sort_by = None /\ r.order = None /\ r.page = None /\ r.limit = None
        \/ /\ r.search = None /\ r.status = None /\ r.type = None
           /\ r.max_price = None /\ r.min_price \in {None, Some(<<"6","0">>)}
        \/ /\ r.search \in {None, Some(S_Villa)}
           /\ r.sort_by \in {None, Some(S_price)}
           /\ r.status \in {None, Some(S_active \o <<",">> \o S_draft)}
           /\ r.min_price \in {None, Some(<<"6","0">>)}
           /\ r.page \in {None, Some(<<"2">>)}
           /\ r.limit \in {None, Some(S_1)}}

-----------------------------------------------------------------------------
(* The list route: export async function GET(req). *)

\* const search = searchParams.get('search')?.toLowerCase() || ''
parseSearch(params) ==
    IF get(params, "search") = None THEN <<>>
    ELSE toLowerCase(get(params, "search")[1])

\* searchParams.get(key) || fallback
getOr(params, key, fallback) ==
    IF get(params, key) = None \/ get(params, key) = Some(<<>>)
    THEN fallback
    ELSE get(params, key)[1]

\* searchParams.get(key)?.split(',') || []
parseList(params, key) ==
    IF get(params, key) = None THEN <<>> ELSE split(get(params, key)[1])

\* parseParams with the client's ceiling 1000 as the fallback of max_price
parseParams_ceiling(params) ==
    [search   |-> parseSearch(params),
     sort_by  |-> getOr(params, "sort_by", S_last_updated),
     order    |-> getOr(params, "order", S_desc),
     status   |-> parseList(params, "status"),
     type     |-> parseList(params, "type"),
     minPrice |-> parseFloat(getOr(params, "min_price", S_0)),
     maxPrice |-> parseFloat(getOr(params, "max_price", <<"1","0","0">>)),
     page     |-> parseInt(getOr(params, "page", S_1)),
     limit    |-> parseInt(getOr(params, "limit", S_10))]

\* parseParams with 'asc' as the fallback of order
parseParams_ascending(params) ==
    [search   |-> parseSearch(params),
     sort_by  |-> getOr(params, "sort_by", S_last_updated),
     order    |-> getOr(params, "order", S_asc),
     status   |-> parseList(params, "status"),
     type     |-> parseList(params, "type"),
     minPrice |-> parseFloat(getOr(params, "min_price", S_0)),
     maxPrice |-> parseFloat(getOr(params, "max_price", InfinityStr)),
     page     |-> parseInt(getOr(params, "page", S_1)),
     limit    |-> parseInt(getOr(params, "limit", S_10))]

\* the constants of GET, read from the query parameters
parseParams(params) ==
    [search   |-> parseSearch(params),
     sort_by  |-> getOr(params, "sort_by", S_last_updated),
     order    |-> getOr(params, "order", S_desc),
     status   |-> parseList(params, "status"),
     type     |-> parseList(params, "type"),
     minPrice |-> parseFloat(getOr(params, "min_price", S_0)),
     maxPrice |-> parseFloat(getOr(params, "max_price", InfinityStr)),
     page     |-> parseInt(getOr(params, "page", S_1)),
     limit    |-> parseInt(getOr(params, "limit", S_10))]

\* a property's numeric field as a JavaScript number: undefined compares and
\* subtracts as NaN
fieldNum(opt) == IF opt = None THEN NaN ELSE Int_(opt[1])

\* evaluating the search clause on p raises TypeError: toLowerCase is called
\* on an undefined name, or on an undefined location once the name has not
\* matched
searchThrows(p, search) ==
    /\ search # <<>>
    /\ \/ p.name = None
       \/ /\ ~includes(toLowerCase(p.name[1]), search)
          /\ p.location = None

\* searchClause without lowercasing the name and the location
searchClause_caseSensitive(p, search) ==
    \/ search = <<>>
    \/ p.name # None /\ includes(p.name[1], search)
    \/ p.location # None /\ includes(p.location[1], search)

\* !search || p.name.toLowerCase().includes(search)
\*         || p.location.toLowerCase().includes(search)
searchClause(p, search) ==
    \/ search = <<>>
    \/ p.name # None /\ includes(toLowerCase(p.name[1]), search)
    \/ p.location # None /\ includes(toLowerCase(p.location[1]), search)

\* statusClause that passes every record
statusClause_ignored(p, status) == TRUE

\* !status.length || status.includes(p.status)
statusClause(p, status) ==
    \/ Len(status) = 0
    \/ p.status # None /\ arrayIncludes(status, p.status[1])

\* !type.length || type.includes(p.type)
typeClause(p, type) ==
    \/ Len(type) = 0
    \/ p.type # None /\ arrayIncludes(type, p.type[1])

\* priceClause with an exclusive maximum
priceClause_exclusive(p, minPrice, maxPrice) ==
    /\ NumLeq(minPrice, fieldNum(p.price))
    /\ NumLeq(fieldNum(p.price), maxPrice)
    /\ fieldNum(p.price) # maxPrice

\* p.price >= minPrice && p.price <= maxPrice
priceClause(p, minPrice, maxPrice) ==
    /\ NumLeq(minPrice, fieldNum(p.price))
    /\ NumLeq(fieldNum(p.price), maxPrice)

\* the callback of properties.filter
filterPredicate(p, q) ==
    /\ searchClause(p, q.search)
    /\ statusClause(p, q.status)
    /\ typeClause(p, q.type)
    /\ priceClause(p, q.minPrice, q.maxPrice)

\* Array.prototype.filter: the elements that pass, in their order
RECURSIVE filterSeq(_, _)
filterSeq(arr, q) ==
    IF Len(arr) = 0 THEN <<>>
    ELSE (IF filterPredicate(arr[1], q) THEN <<arr[1]>> ELSE <<>>)
         \o filterSeq(Tail(arr), q)

\* the callback raises on some element of the array
filterThrows(arr, q) == \E i \in 1..Len(arr) : searchThrows(arr[i], q.search)

\* compare that takes every order for 'asc'
compare_alwaysAscending(a, b, sort_by, order) ==
    IF sort_by = S_price
    THEN NumSub(fieldNum(a.price), fieldNum(b.price))
    ELSE IF sort_by = S_rating
    THEN NumSub(fieldNum(a.rating), fieldNum(b.rating))
    ELSE IF sort_by = S_last_updated
    THEN NumSub(getTime(a.last_updated[1]), getTime(b.last_updated[1]))
    ELSE Int_(0)

\* compare that orders the records by id under an unknown sort field
compare_unknownById(a, b, sort_by, order) ==
    IF sort_by = S_price
    THEN (IF order = S_asc
          THEN NumSub(fieldNum(a.price), fieldNum(b.price))
          ELSE NumSub(fieldNum(b.price), fieldNum(a.price)))
    ELSE IF sort_by = S_rating
    THEN (IF order = S_asc
          THEN NumSub(fieldNum(a.rating), fieldNum(b.rating))
          ELSE NumSub(fieldNum(b.rating), fieldNum(a.rating)))
    ELSE IF sort_by = S_last_updated
    THEN (IF order = S_asc
          THEN NumSub(getTime(a.last_updated[1]), getTime(b.last_updated[1]))
          ELSE NumSub(getTime(b.last_updated[1]), getTime(a.last_updated[1])))
    ELSE (IF order = S_asc THEN Int_(a.id - b.id) ELSE Int_(b.id - a.id))

\* the comparator of filtered.sort
compare(a, b, sort_by, order) ==
    IF sort_by = S_price
    THEN (IF order = S_asc
          THEN NumSub(fieldNum(a.price), fieldNum(b.price))
          ELSE NumSub(fieldNum(b.price), fieldNum(a.price)))
    ELSE IF sort_by = S_rating
    THEN (IF order = S_asc
          THEN NumSub(fieldNum(a.rating), fieldNum(b.rating))
          ELSE NumSub(fieldNum(b.rating), fieldNum(a.rating)))
    ELSE IF sort_by = S_last_updated
    THEN (IF order = S_asc
          THEN NumSub(getTime(a.last_updated[1]), getTime(b.last_updated[1]))
          ELSE NumSub(getTime(b.last_updated[1]), getTime(a.last_updated[1])))
    ELSE Int_(0)

\* sortsAfter that also holds when the comparator gives 0
sortsAfter_orEqual(a, b, sort_by, order) ==
    LET c == compare(a, b, sort_by, order)
    IN c.t # "nan" /\ c.v >= 0

\* the comparator's result says a sorts after b (NaN counts as 0)
sortsAfter(a, b, sort_by, order) ==
    LET c == compare(a, b, sort_by, order)
    IN c.t # "nan" /\ c.v > 0

\* insertSorted that puts x in the place of an element it compares equal to
RECURSIVE insertSorted_overwritesTies(_, _, _, _)
insertSorted_overwritesTies(arr, x, sort_by, order) ==
    IF Len(arr) = 0 THEN <<x>>
    ELSE IF sortsAfter(arr[Len(arr)], x, sort_by, order)
    THEN insertSorted_overwritesTies(SubSeq(arr, 1, Len(arr) - 1), x,
                                     sort_by, order)
         \o <<arr[Len(arr)]>>
    ELSE IF ~sortsAfter(x, arr[Len(arr)], sort_by, order)
    THEN SubSeq(arr, 1, Len(arr) - 1) \o <<x>>
    ELSE arr \o <<x>>

\* x put into the sorted array behind every element it does not sort before
RECURSIVE insertSorted(_, _, _, _)
insertSorted(arr, x, sort_by, order) ==
    IF Len(arr) = 0 THEN <<x>>
    ELSE IF sortsAfter(arr[Len(arr)], x, sort_by, order)
    THEN insertSorted(SubSeq(arr, 1, Len(arr) - 1), x, sort_by, order)
         \o <<arr[Len(arr)]>>
    ELSE arr \o <<x>>

\* Array.prototype.sort with the comparator: a stable sort
RECURSIVE sortSeq(_, _, _)
sortSeq(arr, sort_by, order) ==
    IF Len(arr) = 0 THEN <<>>
    ELSE insertSorted(sortSeq(SubSeq(arr, 1, Len(arr) - 1), sort_by, order),
                      arr[Len(arr)], sort_by, order)

\* let filtered = properties.filter(...); filtered.sort(...)
filtered(arr, q) == filterSeq(arr, q)

\* startOf that counts the pages from 0
startOf_fromPage(q) == NumMul(q.page, q.limit)

\* const start = (page - 1) * limit
startOf(q) == NumMul(NumSub(q.page, Int_(1)), q.limit)

\* const paginated = filtered.slice(start, start + limit)
paginate(arr, q) ==
    LET start == startOf(q)
    IN slice(arr, start, NumAdd(start, q.limit))

\* totalPagesOf that rounds down
totalPagesOf_floor(len, q) ==
    IF IsInt(q.limit) /\ q.limit.v > 0
    THEN Int_(len \div q.limit.v) ELSE CeilDiv(len, q.limit)

\* totalPages: Math.ceil(filtered.length / limit)
totalPagesOf(len, q) == CeilDiv(len, q.limit)

\* responseBody that counts the records of the page as the total
responseBody_pageTotal(arr, q) ==
    LET kept == filtered(arr, q)
        data == paginate(sortSeq(kept, q.sort_by, q.order), q)
    IN [kind       |-> "json",
        data       |-> data,
        total      |-> Len(data),
        page       |-> ToJson(q.page),
        totalPages |-> ToJson(totalPagesOf(Len(kept), q))]

\* the JSON body of the response
responseBody(arr, q) ==
    LET kept == filtered(arr, q)
    IN [kind       |-> "json",
        data       |-> paginate(sortSeq(kept, q.sort_by, q.order), q),
        total      |-> Len(kept),
        page       |-> ToJson(q.page),
        totalPages |-> ToJson(totalPagesOf(Len(kept), q))]

\* the array `properties` after GET, had GET sorted it where it is
propertiesAfter_sortedInPlace(arr, params) ==
    LET q == parseParams(params)
    IN sortSeq(arr, q.sort_by, q.order)

\* the array `properties` after GET: filter reads it and gives a new array,
\* sort reorders that new array and slice reads it
propertiesAfter(arr, params) == arr

\* GET: the response, or the TypeError the filter callback raises
GET(arr, params) ==
    LET q == parseParams(params)
    IN IF filterThrows(arr, q)
       THEN [kind |-> "TypeError"]
       ELSE responseBody(arr, q)

-----------------------------------------------------------------------------
(* The list route as a state machine: requests arrive one after the other. *)

NoResponse == [kind |-> "none"]

\* the initial value of the state `filters`, and what clearFilters sets
InitialFilters ==
    [search        |-> <<>>,
     sortBy        |-> S_last_updated,
     sortDirection |-> S_desc,
     status        |-> <<>>,
     type          |-> <<>>,
     minPrice      |-> 0,
     maxPrice      |-> 1000,
     page          |-> 1]

\* the body of a response that has none
NoBody == [properties |-> None, totalPages |-> None]

\* no fetch has settled yet; prev is the fetch that settled before the last
NoLanding ==
    [id |-> 0, kind |-> "none", query |-> None, body |-> NoBody,
     prev |-> [id |-> 0, kind |-> "none"]]

\* the component before it is mounted: where the list route is looked at alone
ClientUnused ==
    /\ locale = S_en
    /\ filters = InitialFilters
    /\ properties = <<>>
    /\ loading = FALSE
    /\ totalPages = 1
    /\ inflight = {}
    /\ issued = 0
    /\ lastLanded = NoLanding

RouteInit ==
    /\ backing \in Backings
    /\ req = NoParams
    /\ resp = NoResponse
    /\ ClientUnused
    /\ queryString = None

\* one request to the idle route: GET reads the backing array and answers
CallGET ==
    /\ resp = NoResponse
    /\ \E r \in Requests :
           /\ req' = r
           /\ resp' = GET(backing, r)
           /\ backing' = propertiesAfter(backing, r)
           /\ UNCHANGED <<clientVars, queryString>>

\* the response has been sent: the route is idle again
Idle ==
    /\ resp # NoResponse
    /\ req' = NoParams
    /\ resp' = NoResponse
    /\ UNCHANGED <<backing, clientVars, queryString>>

RouteNext == CallGET \/ Idle

SpecRoute == RouteInit /\ [][RouteNext]_vars

-----------------------------------------------------------------------------
(* URLSearchParams: a list of <<key, value>> pairs, written to and read from *)
(* a query string in the application/x-www-form-urlencoded form.            *)

\* URLSearchParams.prototype.append
append(params, key, value) == Append(params, <<key, value>>)

\* the characters the serializer escapes, with their escapes
Escapes ==
    [c \in {" ", ",", "&", "=", "+", "%"} |->
        CASE c = " " -> <<"+">>
          [] c = "," -> <<"%","2","C">>
          [] c = "&" -> <<"%","2","6">>
          [] c = "=" -> <<"%","3","D">>
          [] c = "+" -> <<"%","2","B">>
          [] OTHER   -> <<"%","2","5">>]

RECURSIVE encode(_)
encode(s) ==
    IF Len(s) = 0 THEN <<>>
    ELSE (IF s[1] \in DOMAIN Escapes THEN Escapes[s[1]] ELSE <<s[1]>>)
         \o encode(Tail(s))

\* URLSearchParams.prototype.toString
RECURSIVE paramsToString(_)
paramsToString(params) ==
    IF Len(params) = 0 THEN <<>>
    ELSE encode(params[1][1]) \o <<"=">> \o encode(params[1][2])
         \o (IF Len(params) = 1 THEN <<>>
             ELSE <<"&">> \o paramsToString(Tail(params)))

\* the character a percent escape stands for
Unescape(h1, h2) ==
    CASE h1 = "2" /\ h2 = "C" -> ","
      [] h1 = "2" /\ h2 = "6" -> "&"
      [] h1 = "3" /\ h2 = "D" -> "="
      [] h1 = "2" /\ h2 = "B" -> "+"
      [] h1 = "2" /\ h2 = "5" -> "%"
      [] h1 = "2" /\ h2 = "0" -> " "
      [] OTHER -> "?"

RECURSIVE decode(_)
decode(s) ==
    IF Len(s) = 0 THEN <<>>
    ELSE IF s[1] = "+" THEN <<" ">> \o decode(Tail(s))
    ELSE IF s[1] = "%" /\ Len(s) >= 3
    THEN <<Unescape(s[2], s[3])>> \o decode(SubSeq(s, 4, Len(s)))
    ELSE <<s[1]>> \o decode(Tail(s))

\* one key=value piece of a query string
parsePair(piece) ==
    LET k == indexOf(piece, "=")
    IN IF k = 0 THEN <<decode(piece), <<>>>>
       ELSE <<decode(SubSeq(piece, 1, k - 1)),
              decode(SubSeq(piece, k + 1, Len(piece)))>>

\* new URL(req.url).searchParams: the pairs of the query string
parseQueryString(s) ==
    LET pieces == splitBy(s, "&")
        kept   == SelectSeq(pieces, LAMBDA x : Len(x) > 0)
    IN [i \in 1..Len(kept) |-> parsePair(kept[i])]

\* URLSearchParams.prototype.get: the first value of the key, or null
searchParamsGet(pairs, key) ==
    IF \E i \in 1..Len(pairs) : pairs[i][1] = key
    THEN Some(pairs[CHOOSE i \in 1..Len(pairs) :
                        /\ pairs[i][1] = key
                        /\ \A j \in 1..(i - 1) : pairs[j][1] # key][2])
    ELSE None

\* how many pairs of the list have the key
countKey(pairs, key) == Cardinality({i \in 1..Len(pairs) : pairs[i][1] = key})

\* the searchParams GET reads, for a request that arrives with the query string
searchParamsOf(qs) ==
    LET pairs == parseQueryString(qs)
    IN [search    |-> searchParamsGet(pairs, K_search),
        sort_by   |-> searchParamsGet(pairs, K_sort_by),
        order     |-> searchParamsGet(pairs, K_order),
        status    |-> searchParamsGet(pairs, K_status),
        type      |-> searchParamsGet(pairs, K_type),
        min_price |-> searchParamsGet(pairs, K_min_price),
        max_price |-> searchParamsGet(pairs, K_max_price),
        page      |-> searchParamsGet(pairs, K_page),
        limit     |-> searchParamsGet(pairs, K_limit)]

-----------------------------------------------------------------------------
(* The client component PropertyFilterSystem. *)

\* buildQuery that appends one status pair and one type pair per member
buildQuery_repeatedKeys(filterState, loc) ==
    LET p1 == append(<<>>, K_locale, loc)
        p2 == IF trim(filterState.search) # <<>>
              THEN append(p1, K_search, trim(filterState.search)) ELSE p1
        p3 == append(p2, K_sortBy, filterState.sortBy)
        p4 == append(p3, K_sortDirection, filterState.sortDirection)
        p5 == p4 \o [i \in 1..Len(filterState.status) |->
                        <<K_status, filterState.status[i]>>]
        p6 == p5 \o [i \in 1..Len(filterState.type) |->
                        <<K_type, filterState.type[i]>>]
        p7 == IF filterState.minPrice > 0
              THEN append(p6, K_minPrice, toString(filterState.minPrice))
              ELSE p6
        p8 == IF filterState.maxPrice < 1000
              THEN append(p7, K_maxPrice, toString(filterState.maxPrice))
              ELSE p7
        p9 == append(p8, K_page, toString(filterState.page))
    IN paramsToString(append(p9, K_limit, S_10))

\* buildQuery(filterState), with the locale it closes over
buildQuery(filterState, loc) ==
    LET p1 == append(<<>>, K_locale, loc)
        p2 == IF trim(filterState.search) # <<>>
              THEN append(p1, K_search, trim(filterState.search)) ELSE p1
        p3 == append(p2, K_sortBy, filterState.sortBy)
        p4 == append(p3, K_sortDirection, filterState.sortDirection)
        p5 == IF Len(filterState.status) > 0
              THEN append(p4, K_status, join(filterState.status)) ELSE p4
        p6 == IF Len(filterState.type) > 0
              THEN append(p5, K_type, join(filterState.type)) ELSE p5
        p7 == IF filterState.minPrice > 0
              THEN append(p6, K_minPrice, toString(filterState.minPrice))
              ELSE p6
        p8 == IF filterState.maxPrice < 1000
              THEN append(p7, K_maxPrice, toString(filterState.maxPrice))
              ELSE p7
        p9 == append(p8, K_page, toString(filterState.page))
    IN paramsToString(append(p9, K_limit, S_10))

\* a value of req.query is used when it is truthy: present and not ""
truthy(opt) == opt # None /\ opt # Some(<<>>)

\* the handler of /api/[locale]/properties: the medusaQuery it builds from
\* req.query (limit, offset, search, sort order, status, type, price range)
handlerParams(qs) ==
    LET pairs  == parseQueryString(qs)
        q(key) == searchParamsGet(pairs, key)
        or(opt, fallback) == IF opt = None THEN fallback ELSE opt[1]
        limit  == parseInt(or(q(K_limit), S_10))
        page   == parseInt(or(q(K_page), S_1))
    IN [limit         |-> limit,
        page          |-> page,
        offset        |-> NumMul(NumSub(page, Int_(1)), limit),
        search        |-> IF truthy(q(K_search)) THEN q(K_search) ELSE None,
        sortBy        |-> or(q(K_sortBy), S_last_updated),
        sortDirection |-> or(q(K_sortDirection), S_desc),
        status        |-> IF truthy(q(K_status))
                          THEN Some(split(q(K_status)[1])) ELSE None,
        type          |-> IF truthy(q(K_type))
                          THEN Some(split(q(K_type)[1])) ELSE None,
        minPrice      |-> IF truthy(q(K_minPrice))
                          THEN Some(parseInt(q(K_minPrice)[1])) ELSE None,
        maxPrice      |-> IF truthy(q(K_maxPrice))
                          THEN Some(parseInt(q(K_maxPrice)[1])) ELSE None]

-----------------------------------------------------------------------------
(* Properties of the list route. *)

InSeq(x, arr) == \E i \in 1..Len(arr) : arr[i] = x

\* arr[a+1..b] for some a <= b
IsContiguousSliceOf(part, arr) ==
    \E a \in 0..Len(arr) : \E b \in a..Len(arr) : part = SubSeq(arr, a + 1, b)

\* C1: the response's total is the number of backing records that satisfy the
\* filter predicate, every record of data satisfies it, and data is a
\* contiguous slice of the filtered-then-sorted sequence.
C1_ResponseIsPageOfFilteredSorted ==
    resp.kind = "json" =>
        LET q == parseParams(req)
        IN /\ resp.total =
                  Cardinality({i \in 1..Len(backing) :
                                  filterPredicate(backing[i], q)})
           /\ \A i \in 1..Len(resp.data) :
                  /\ filterPredicate(resp.data[i], q)
                  /\ InSeq(resp.data[i], backing)
           /\ IsContiguousSliceOf(resp.data,
                                  sortSeq(filterSeq(backing, q),
                                          q.sort_by, q.order))

\* a page that is shorter than the matching records, which are fewer than the
\* backing records
C1_Witness ==
    /\ resp.kind = "json"
    /\ Len(resp.data) = 1
    /\ resp.total = 2
    /\ Len(backing) = 3
    /\ req.page = Some(<<"2">>)

\* C2: a page below 1 or above totalPages, with a positive limit, gives an
\* empty data array and no error.
C2_OutOfRangePageIsEmpty ==
    resp.kind # "none" =>
        LET q == parseParams(req)
        IN (/\ IsInt(q.limit) /\ q.limit.v > 0
            /\ IsInt(q.page)
            /\ \/ q.page.v < 1
               \/ q.page.v > totalPagesOf(Len(filtered(backing, q)), q).v
            /\ ~filterThrows(backing, q))
           => (resp.kind = "json" /\ resp.data = <<>>)

\* C6: a record is kept by the search clause iff the search string is empty
\* or its lowercase form occurs in the lowercased name or in the lowercased
\* location.
SearchMatches(p, rawSearch) ==
    \/ rawSearch = None
    \/ rawSearch[1] = <<>>
    \/ /\ p.name # None
       /\ includes(toLowerCase(p.name[1]), toLowerCase(rawSearch[1]))
    \/ /\ p.location # None
       /\ includes(toLowerCase(p.location[1]), toLowerCase(rawSearch[1]))

C6_SearchClause ==
    resp.kind = "json" =>
        LET q    == parseParams(req)
            kept == filtered(backing, q)
        IN \A i \in 1..Len(backing) :
               InSeq(backing[i], kept)
               <=> /\ SearchMatches(backing[i], req.search)
                   /\ statusClause(backing[i], q.status)
                   /\ typeClause(backing[i], q.type)
                   /\ priceClause(backing[i], q.minPrice, q.maxPrice)

\* "Villa" finds Luxury Sunset Villa and drops Modern City Apartment
C6_Witness ==
    /\ resp.kind = "json"
    /\ req.search = Some(S_Villa)
    /\ InSeq(P1, resp.data)
    /\ InSeq(P2, backing)
    /\ resp.total = 1

\* C7: with a non-empty status list (type list), every record of the filtered
\* output has its status (type) in the list, and every backing record whose
\* status (type) is in the list and which passes the other clauses is in the
\* output.
C7_StatusAndTypeMembership ==
    resp.kind = "json" =>
        LET q    == parseParams(req)
            kept == filtered(backing, q)
        IN /\ Len(q.status) > 0 =>
                 /\ \A i \in 1..Len(kept) :
                        /\ kept[i].status # None
                        /\ InSeq(kept[i].status[1], q.status)
                 /\ \A i \in 1..Len(backing) :
                        (/\ backing[i].status # None
                         /\ InSeq(backing[i].status[1], q.status)
                         /\ searchClause(backing[i], q.search)
                         /\ typeClause(backing[i], q.type)
                         /\ priceClause(backing[i], q.minPrice, q.maxPrice))
                        => InSeq(backing[i], kept)
           /\ Len(q.type) > 0 =>
                 /\ \A i \in 1..Len(kept) :
                        /\ kept[i].type # None
                        /\ InSeq(kept[i].type[1], q.type)
                 /\ \A i \in 1..Len(backing) :
                        (/\ backing[i].type # None
                         /\ InSeq(backing[i].type[1], q.type)
                         /\ searchClause(backing[i], q.search)
                         /\ statusClause(backing[i], q.status)
                         /\ priceClause(backing[i], q.minPrice, q.maxPrice))
                        => InSeq(backing[i], kept)

\* status=active,draft keeps the active and the draft record and drops the
\* archived one
C7_Witness ==
    /\ resp.kind = "json"
    /\ req.status = Some(S_active \o <<",">> \o S_draft)
    /\ backing = <<P3, P2, P1>>
    /\ resp.total = 2
    /\ ~InSeq(P3, resp.data)

\* C8: a record with a price is kept by the price clause iff
\* minimum <= price <= maximum, both ends included; without max_price no
\* record is dropped for its price being high; over the prices [100, 50]
\* with minimum 60 the result is the record priced 100.
C8_PriceClause ==
    resp.kind = "json" =>
        LET q    == parseParams(req)
            kept == filtered(backing, q)
        IN IsInt(q.minPrice) =>
            /\ \A i \in 1..Len(backing) :
                   backing[i].price # None =>
                       (InSeq(backing[i], kept)
                        <=> /\ searchClause(backing[i], q.search)
                            /\ statusClause(backing[i], q.status)
                            /\ typeClause(backing[i], q.type)
                            /\ q.minPrice.v <= backing[i].price[1]
                            /\ \/ q.maxPrice = Infinity
                               \/ /\ IsInt(q.maxPrice)
                                  /\ backing[i].price[1] <= q.maxPrice.v)
            /\ (req.max_price = None => q.maxPrice = Infinity)
            /\ (/\ backing = <<P1, P2>>
                /\ req = [NoParams EXCEPT !.min_price = Some(<<"6","0">>)])
               => (resp.data = <<P1>> /\ resp.total = 1)

\* min_price=100 and max_price=100 keep the record priced exactly 100 and
\* drop the records priced 50 and 200
C8_Witness ==
    /\ resp.kind = "json"
    /\ req.min_price = Some(<<"1","0","0">>)
    /\ req.max_price = Some(<<"1","0","0">>)
    /\ backing = <<P2, P1, P3>>
    /\ resp.data = <<P1>>

\* the scenario of C8: prices [100, 50], minimum 60
C8_ScenarioReached ==
    /\ backing = <<P1, P2>>
    /\ req = [NoParams EXCEPT !.min_price = Some(<<"6","0">>)]
    /\ resp.kind = "json"
    /\ resp.data = <<P1>>

\* C9: with no search, no status, no type, no min_price and no max_price in
\* the request, the filter returns the backing records (each with a price,
\* none negative) unchanged: same records, same order.
C9_FilterIdentity ==
    (/\ resp.kind = "json"
     /\ req.search = None /\ req.status = None /\ req.type = None
     /\ req.min_price = None /\ req.max_price = None
     /\ \A i \in 1..Len(backing) :
            backing[i].price # None /\ backing[i].price[1] >= 0)
    => /\ filtered(backing, parseParams(req)) = backing
       /\ resp.total = Len(backing)

\* three records, each with a price, pass the default filter
C9_Witness ==
    /\ resp.kind = "json"
    /\ req.search = None /\ req.status = None /\ req.type = None
    /\ req.min_price = None /\ req.max_price = None
    /\ backing = <<P3, P1, P2>>
    /\ resp.total = 3

\* C10: the filter never raises an error, whatever field a record lacks.
C10_FilterNeverThrows == resp.kind # "TypeError"

\* C10, second half: a record without a price, status or type is dropped by
\* the clause that reads the missing field, without an error
C10_AbsentFieldDoesNotMatch ==
    resp.kind = "json" =>
        LET q    == parseParams(req)
            kept == filtered(backing, q)
        IN \A i \in 1..Len(backing) :
               (\/ backing[i].price = None
                \/ backing[i].status = None /\ Len(q.status) > 0
                \/ backing[i].type = None /\ Len(q.type) > 0)
               => ~InSeq(backing[i], kept)

-----------------------------------------------------------------------------
(* Properties of the sort of the list route. *)

KnownSortFields == {S_price, S_rating, S_last_updated}

\* the key the records are ordered by under a known sort field
SortKey(p, sort_by) ==
    IF sort_by = S_price THEN fieldNum(p.price)
    ELSE IF sort_by = S_rating THEN fieldNum(p.rating)
    ELSE getTime(p.last_updated[1])

\* the keys of the array do not decrease (order 'asc') or do not increase
OrderedByKey(arr, sort_by, order) ==
    \A i \in 1..(Len(arr) - 1) :
        IF order = S_asc
        THEN NumLeq(SortKey(arr[i], sort_by), SortKey(arr[i + 1], sort_by))
        ELSE NumLeq(SortKey(arr[i + 1], sort_by), SortKey(arr[i], sort_by))

\* C11: under sort field price, rating or last_updated the sorted sequence,
\* and the page of it in the response, has non-decreasing keys for order
\* 'asc' and non-increasing keys for order 'desc'.
C11_SortedByKey ==
    resp.kind = "json" =>
        LET q   == parseParams(req)
            out == sortSeq(filtered(backing, q), q.sort_by, q.order)
        IN q.sort_by \in KnownSortFields =>
               /\ OrderedByKey(out, q.sort_by, q.order)
               /\ OrderedByKey(resp.data, q.sort_by, q.order)

\* prices [200, 50, 100] sorted by price ascending come out as [50, 100, 200]
C11_Witness ==
    /\ backing = <<P3, P2, P1>>
    /\ req.sort_by = Some(S_price) /\ req.order = Some(S_asc)
    /\ req.page = None /\ req.limit = None
    /\ resp.kind = "json"
    /\ resp.data = <<P2, P1, P3>>

\* how many times x occurs in the array
Occurrences(x, arr) == Cardinality({i \in 1..Len(arr) : arr[i] = x})

\* C12: the sorted sequence is a permutation of the filtered one (same
\* length, every record as many times), and sorting it again with the same
\* field and order gives it back unchanged.
C12_SortIsIdempotentPermutation ==
    resp.kind = "json" =>
        LET q    == parseParams(req)
            kept == filtered(backing, q)
            out  == sortSeq(kept, q.sort_by, q.order)
        IN /\ Len(out) = Len(kept)
           /\ \A p \in Pool : Occurrences(p, out) = Occurrences(p, kept)
           /\ sortSeq(out, q.sort_by, q.order) = out

\* three records, two of them with equal ratings, reordered by the sort
C12_Witness ==
    /\ backing = <<P2, P3, P1>>
    /\ req.sort_by = Some(S_rating) /\ req.order = None
    /\ req.page = None /\ req.limit = None
    /\ resp.kind = "json"
    /\ resp.data = <<P1, P2, P3>>

\* the place of a record in an array of distinct records
Position(x, arr) == CHOOSE i \in 1..Len(arr) : arr[i] = x

\* C13: two records with equal sort keys keep, in the sorted sequence, the
\* relative order they had in the filtered one, for 'asc' and for 'desc'.
C13_SortIsStable ==
    resp.kind = "json" =>
        LET q    == parseParams(req)
            kept == filtered(backing, q)
            out  == sortSeq(kept, q.sort_by, q.order)
        IN q.sort_by \in KnownSortFields =>
               \A i, j \in 1..Len(out) :
                   (i < j /\ SortKey(out[i], q.sort_by)
                                 = SortKey(out[j], q.sort_by))
                   => Position(out[i], kept) < Position(out[j], kept)

\* descending by rating: the record rated 48 moves to the front, the two
\* rated 42 stay in their order
C13_Witness ==
    /\ backing = <<P3, P2, P1>>
    /\ req.sort_by = Some(S_rating) /\ req.order = None
    /\ req.page = None /\ req.limit = None
    /\ resp.kind = "json"
    /\ resp.data = <<P1, P3, P2>>

\* C14: under a sort field other than price, rating and last_updated the
\* sort leaves the filtered sequence in its order, for either direction, and
\* the route answers without an error.
C14_UnknownSortFieldKeepsOrder ==
    LET q    == parseParams(req)
        kept == filtered(backing, q)
    IN (resp # NoResponse /\ q.sort_by \notin KnownSortFields
            /\ ~filterThrows(backing, q))
       => /\ resp.kind = "json"
          /\ sortSeq(kept, q.sort_by, q.order) = kept
          /\ resp.data = paginate(kept, q)

\* sort_by=id, ascending: three records that any known field would reorder
\* come back as they are
C14_Witness ==
    /\ backing = <<P3, P2, P1>>
    /\ req.sort_by = Some(<<"i","d">>) /\ req.order = Some(S_asc)
    /\ req.page = None /\ req.limit = None
    /\ resp.kind = "json"
    /\ resp.data = <<P3, P2, P1>>

-----------------------------------------------------------------------------
(* Properties of the pagination of the list route. *)

\* ceil(n / d) for n >= 0 and d > 0
Ceil(n, d) == (n + d - 1) \div d

Min(a, b) == IF a <= b THEN a ELSE b

\* the elements of arr at the 0-based indices from up to but excluding to
Range(arr, from, to) == [i \in 1..(to - from) |-> arr[from + i]]

\* 25 items, to be paged by 10
TwentyFive == [i \in 1..25 |-> i]

\* C15: for a positive limit and a page in 1..totalPages the response holds
\* the elements of the sorted sequence at the 0-based indices (page-1)*limit
\* up to but excluding min(page*limit, total), at most limit of them, and
\* totalPages is ceil(total / limit); page 2 of 25 items by 10 is the items
\* at indices 10..19, of 3 pages.
C15_PageIsSliceOfSorted ==
    /\ resp.kind = "json" =>
           LET q   == parseParams(req)
               out == sortSeq(filtered(backing, q), q.sort_by, q.order)
               n   == Len(out)
           IN (/\ IsInt(q.limit) /\ q.limit.v > 0
               /\ IsInt(q.page) /\ q.page.v >= 1
               /\ q.page.v <= Ceil(n, q.limit.v))
              => /\ resp.data = Range(out, (q.page.v - 1) * q.limit.v,
                                      Min(q.page.v * q.limit.v, n))
                 /\ Len(resp.data) <= q.limit.v
                 /\ resp.total = n
                 /\ resp.totalPages = Int_(Ceil(n, q.limit.v))
    /\ LET q == [page |-> Int_(2), limit |-> Int_(10)]
       IN /\ paginate(TwentyFive, q) = Range(TwentyFive, 10, 20)
          /\ totalPagesOf(Len(TwentyFive), q) = Int_(3)

\* page 2 of three records by 2: the third record of the sorted sequence, of
\* 2 pages
C15_Witness ==
    /\ backing = <<P1, P2, P3>>
    /\ req.sort_by = Some(S_price) /\ req.order = Some(S_asc)
    /\ req.page = Some(<<"2">>) /\ req.limit = Some(<<"2">>)
    /\ resp.kind = "json"
    /\ resp.data = <<P3>>
    /\ resp.total = 3
    /\ resp.totalPages = Int_(2)

\* the pages from..to of the sorted sequence, one after the other
RECURSIVE PagesConcatenated(_, _, _, _)
PagesConcatenated(out, q, from, to) ==
    IF from > to THEN <<>>
    ELSE paginate(out, [q EXCEPT !.page = Int_(from)])
         \o PagesConcatenated(out, q, from + 1, to)

\* the lengths of the pages from..to, added up
RECURSIVE PageLengthsSum(_, _, _, _)
PageLengthsSum(out, q, from, to) ==
    IF from > to THEN 0
    ELSE Len(paginate(out, [q EXCEPT !.page = Int_(from)]))
         + PageLengthsSum(out, q, from + 1, to)

\* C16: for a positive limit, the pages 1..totalPages (totalPages as the
\* response gives it) have lengths that add up to the total count, and put
\* one after the other they are the sorted sequence.
C16_PagesPartitionSorted ==
    resp.kind = "json" =>
        LET q   == parseParams(req)
            out == sortSeq(filtered(backing, q), q.sort_by, q.order)
        IN (IsInt(q.limit) /\ q.limit.v > 0)
           => /\ IsInt(resp.totalPages)
              /\ PageLengthsSum(out, q, 1, resp.totalPages.v) = resp.total
              /\ PagesConcatenated(out, q, 1, resp.totalPages.v) = out

\* three records by 2: a page of two and a page of one
C16_Witness ==
    /\ backing = <<P3, P1, P2>>
    /\ req.sort_by = None /\ req.order = None
    /\ req.page = None /\ req.limit = Some(<<"2">>)
    /\ resp.kind = "json"
    /\ resp.data = <<P3, P1>>
    /\ resp.total = 3
    /\ resp.totalPages = Int_(2)

-----------------------------------------------------------------------------
(* Properties of the parameters of the list route. *)

\* C17: a min_price, max_price, page or limit that is not a number is
\* replaced by a fallback number: the route computes with ordinary numbers,
\* never with NaN, and the page of the response is a number.
C17_NonNumericReplacedByFallback ==
    resp.kind = "json" =>
        LET q == parseParams(req)
        IN /\ q.minPrice # NaN /\ q.maxPrice # NaN
           /\ q.page # NaN /\ q.limit # NaN
           /\ resp.page # JsonNull

\* C18: the request without parameters is answered as the request with an
\* empty search, sort_by=last_updated, order=desc, no status, no type,
\* min_price=0, max_price=Infinity, page=1 and limit=10.
C18_DefaultsWhenAbsent ==
    /\ parseParams(NoParams) = parseParams(DefaultsRequest)
    /\ parseParams(NoParams) =
           [search   |-> <<>>,
            sort_by  |-> S_last_updated,
            order    |-> S_desc,
            status   |-> <<>>,
            type     |-> <<>>,
            minPrice |-> Int_(0),
            maxPrice |-> Infinity,
            page     |-> Int_(1),
            limit    |-> Int_(10)]
    /\ (resp # NoResponse /\ req \in {NoParams, DefaultsRequest})
       => /\ resp = GET(backing, DefaultsRequest)
          /\ resp = GET(backing, NoParams)
          /\ resp.kind = "json"
          /\ resp.data = sortSeq(filterSeq(backing, parseParams(DefaultsRequest)),
                                 S_last_updated, S_desc)

\* no parameters: the three records, the latest first
C18_Witness ==
    /\ backing = <<P2, P1, P3>>
    /\ req = NoParams
    /\ resp.kind = "json"
    /\ resp.data = <<P3, P1, P2>>
    /\ resp.page = Int_(1)
    /\ resp.totalPages = Int_(1)

\* the spelt-out request on the same records: the same answer
C18_WitnessSpeltOut ==
    /\ backing = <<P2, P1, P3>>
    /\ req = DefaultsRequest
    /\ resp.kind = "json"
    /\ resp.data = <<P3, P1, P2>>

\* C19: a call of GET leaves the array properties as it was, the same
\* records in the same order, so every answer is the answer to its request
\* on the array the route started with.
C19_BackingNeverMutated ==
    /\ [][backing' = backing]_vars
    /\ [](resp # NoResponse => resp = GET(backing, req))

\* a call whose answer is the records in another order than the array's
C19_Witness ==
    /\ backing = <<P1, P2, P3>>
    /\ req.sort_by = Some(S_price) /\ req.order = Some(S_asc)
    /\ req.page = None /\ req.limit = None
    /\ resp.kind = "json"
    /\ resp.data = <<P2, P1, P3>>

-----------------------------------------------------------------------------
(* buildQuery and the list route's parsing, one after the other: a filter  *)
(* state is encoded by the client and the query string is read by GET.     *)

S_space == <<" ">>

FilterStates ==
    [search        : {<<>>, S_space, S_Villa, <<" ">> \o S_villa \o <<" ">>},
     sortBy        : {S_last_updated, S_rating, S_price},
     sortDirection : {S_asc, S_desc},
     status        : {<<>>, <<S_active>>, <<S_active, S_draft>>,
                      <<S_draft, S_active>>},
     type          : {<<>>, <<S_villa>>, <<S_villa, S_house>>},
     minPrice      : {0, 60, 500},
     maxPrice      : {500, 999, 1000},
     page          : {1, 2, -1}]

Locales == {S_en, S_kh}

QueryInit ==
    /\ filters \in FilterStates
    /\ locale \in Locales
    /\ queryString = None
    /\ req = NoParams
    /\ backing = <<>>
    /\ resp = NoResponse
    /\ properties = <<>>
    /\ loading = FALSE
    /\ totalPages = 1
    /\ inflight = {}
    /\ issued = 0
    /\ lastLanded = NoLanding

\* the client encodes its filter state
BuildQuery ==
    /\ queryString = None
    /\ queryString' = Some(buildQuery(filters, locale))
    /\ UNCHANGED <<routeVars, clientVars>>

\* the list route reads the query string of the request
ReadQuery ==
    /\ queryString # None
    /\ req = NoParams
    /\ req' = searchParamsOf(queryString[1])
    /\ UNCHANGED <<backing, resp, clientVars, queryString>>

QueryNext == BuildQuery \/ ReadQuery

SpecQuery == QueryInit /\ [][QueryNext]_vars

-----------------------------------------------------------------------------
(* Properties of buildQuery and of the parsing of its query string. *)

\* the filter state the list route GET reads back from the query string
\* buildQuery wrote, field by field
GETReadsBack(q, f) ==
    /\ q.search = toLowerCase(trim(f.search))
    /\ q.sort_by = f.sortBy
    /\ q.order = f.sortDirection
    /\ q.status = f.status
    /\ q.type = f.type
    /\ q.minPrice = Int_(f.minPrice)
    /\ q.maxPrice = (IF f.maxPrice < 1000 THEN Int_(f.maxPrice) ELSE Infinity)
    /\ q.page = Int_(f.page)
    /\ q.limit = Int_(10)

\* C3: the query string buildQuery writes for a filter state, read by the
\* list route's parameter parsing, gives that filter state back: every field
\* the encoder emitted parses to the encoded value (the search up to letter
\* case), every omitted field to its default.
C3_RoundTripThroughGET ==
    req # NoParams => GETReadsBack(parseParams(req), filters)

\* the same round trip through the parameter parsing of the handler of
\* /api/[locale]/properties, which reads the keys buildQuery writes
C3_RoundTripThroughHandler ==
    queryString # None =>
        LET h == handlerParams(queryString[1])
            f == filters
        IN /\ h.search = (IF trim(f.search) # <<>>
                          THEN Some(trim(f.search)) ELSE None)
           /\ h.sortBy = f.sortBy
           /\ h.sortDirection = f.sortDirection
           /\ h.status = (IF Len(f.status) > 0 THEN Some(f.status) ELSE None)
           /\ h.type = (IF Len(f.type) > 0 THEN Some(f.type) ELSE None)
           /\ h.minPrice = (IF f.minPrice > 0
                            THEN Some(Int_(f.minPrice)) ELSE None)
           /\ h.maxPrice = (IF f.maxPrice < 1000
                            THEN Some(Int_(f.maxPrice)) ELSE None)
           /\ h.page = Int_(f.page)
           /\ h.limit = Int_(10)

\* the key occurs once in the pairs, with the value
EmittedOnce(pairs, key, value) ==
    countKey(pairs, key) = 1 /\ searchParamsGet(pairs, key) = Some(value)

\* what C5 says of every key but search
OtherKeysAsClaimed(pairs, f) ==
    /\ IF Len(f.status) > 0
       THEN /\ countKey(pairs, K_status) = 1
            /\ split(searchParamsGet(pairs, K_status)[1]) = f.status
       ELSE countKey(pairs, K_status) = 0
    /\ IF Len(f.type) > 0
       THEN /\ countKey(pairs, K_type) = 1
            /\ split(searchParamsGet(pairs, K_type)[1]) = f.type
       ELSE countKey(pairs, K_type) = 0
    /\ IF f.minPrice > 0
       THEN EmittedOnce(pairs, K_minPrice, toString(f.minPrice))
       ELSE countKey(pairs, K_minPrice) = 0
    /\ IF f.maxPrice < 1000
       THEN EmittedOnce(pairs, K_maxPrice, toString(f.maxPrice))
       ELSE countKey(pairs, K_maxPrice) = 0
    /\ EmittedOnce(pairs, K_sortBy, f.sortBy)
    /\ EmittedOnce(pairs, K_sortDirection, f.sortDirection)
    /\ EmittedOnce(pairs, K_page, toString(f.page))
    /\ EmittedOnce(pairs, K_limit, S_10)

\* C5 as claimed: buildQuery emits the search key iff the search string is not
\* empty, status and type iff their arrays are not empty (once, the members
\* joined by commas), minPrice iff above 0, maxPrice iff below 1000, and
\* always sortBy, sortDirection, page and limit.
C5_KeysAsClaimed ==
    queryString # None =>
        LET pairs == parseQueryString(queryString[1])
        IN /\ countKey(pairs, K_search) = (IF filters.search # <<>> THEN 1 ELSE 0)
           /\ OtherKeysAsClaimed(pairs, filters)

\* C5 amended: the search key is emitted iff the search string is not empty
\* once its surrounding blanks are trimmed, and its value is the trimmed
\* string; the other keys as claimed.
C5_KeysEmitted ==
    queryString # None =>
        LET pairs == parseQueryString(queryString[1])
        IN /\ IF trim(filters.search) # <<>>
              THEN EmittedOnce(pairs, K_search, trim(filters.search))
              ELSE countKey(pairs, K_search) = 0
           /\ OtherKeysAsClaimed(pairs, filters)

\* a query string with a trimmed search, two statuses under one status key, a
\* minPrice and no maxPrice
C5_Witness ==
    /\ queryString # None
    /\ filters.search = <<" ">> \o S_villa \o <<" ">>
    /\ filters.status = <<S_draft, S_active>>
    /\ filters.minPrice = 60
    /\ filters.maxPrice = 1000
    /\ LET pairs == parseQueryString(queryString[1])
       IN /\ searchParamsGet(pairs, K_search) = Some(S_villa)
          /\ searchParamsGet(pairs, K_status)
                 = Some(S_draft \o <<",">> \o S_active)
          /\ countKey(pairs, K_maxPrice) = 0

-----------------------------------------------------------------------------
(* Properties of the component's overlapping fetches. *)

\* the displayed records and totalPages are those of the body
DisplayedIs(body) ==
    /\ properties = (IF body.properties = None THEN <<>> ELSE body.properties[1])
    /\ totalPages = (IF body.totalPages \in {None, Some(0)}
                     THEN 1 ELSE body.totalPages[1])

\* a fetch leaves the fetches in flight only by settling
NotCancelled ==
    \A r \in inflight : r \notin inflight' => lastLanded'.id = r.id

\* every call of fetchProperties puts one more fetch in flight, whatever is in
\* flight already
NotDeduplicated ==
    issued' = issued + 1 =>
        /\ Cardinality(inflight') = Cardinality(inflight) + 1
        /\ inflight \subseteq inflight'
        /\ \E r \in inflight' : r.id = issued'

\* C4: overlapping fetches are neither cancelled nor de-duplicated, and the
\* displayed properties and totalPages are those of the response that landed
\* last, whichever request was issued last.
C4_LastResponseWins ==
    /\ [](lastLanded.kind = "json" => DisplayedIs(lastLanded.body))
    /\ [][NotCancelled /\ NotDeduplicated]_vars

\* two fetches overlapped, the response to the second landed first and the
\* response to the first landed last: the first one's is displayed
C4_Witness ==
    /\ issued = 2
    /\ inflight = {}
    /\ lastLanded.id = 1 /\ lastLanded.kind = "json"
    /\ lastLanded.prev.id = 2 /\ lastLanded.prev.kind = "json"
    /\ properties = <<P1, P2>>
    /\ totalPages = 3

\* a fetch settles as a failure: it rejects, its body cannot be read, or the
\* backend answers with a status that is not a success
FailureLands ==
    lastLanded' # lastLanded /\ lastLanded'.kind \in {"error", "notOk"}

\* setFilters or setLocale is called with a new value (clearFilters sets the
\* initial filters anew)
FiltersOrLocaleSet ==
    filters' # filters \/ locale' # locale \/ filters' = InitialFilters

\* C20: when a fetch fails the displayed records become empty and loading
\* becomes false, and the failure issues no request: requests are issued
\* only by steps that set the filters or the locale, never by a step that
\* settles a fetch.
C20_FailedFetchClearsWithoutRetry ==
    /\ [][FailureLands => /\ properties' = <<>>
                          /\ loading' = FALSE
                          /\ issued' = issued
                          /\ inflight' \subseteq inflight
                          /\ filters' = filters /\ locale' = locale]_vars
    /\ [][issued' # issued => /\ lastLanded' = lastLanded
                              /\ FiltersOrLocaleSet]_vars

\* records were displayed, of 3 pages; then the second fetch failed: nothing
\* is displayed, nothing is loading and nothing is in flight
C20_Witness ==
    /\ issued = 2
    /\ lastLanded.id = 2 /\ lastLanded.kind = "error"
    /\ lastLanded.prev.id = 1 /\ lastLanded.prev.kind = "json"
    /\ totalPages = 3
    /\ properties = <<>>
    /\ loading = FALSE
    /\ inflight = {}

-----------------------------------------------------------------------------
(* The component as a state machine: user events, each followed by the     *)
(* effect that calls fetchProperties(filters), and the settling of fetches. *)

\* what the user types into the search box, picks and drags in the model
SearchInputs == {S_Villa, S_space}

SortByOptions == {S_last_updated, S_rating, S_price}

StatusOptions == {S_active, S_draft}

TypeOptions == {S_villa}

MinPriceInputs == {0, 60}

MaxPriceInputs == {500, 1000}

\* the JSON bodies the backend answers with in the model
Bodies ==
    {[properties |-> Some(<<P1, P2>>), totalPages |-> Some(3)],
     [properties |-> Some(<<P3>>), totalPages |-> Some(1)],
     [properties |-> Some(<<>>), totalPages |-> Some(0)],
     NoBody}

\* data.properties || []
bodyProperties(body) ==
    IF body.properties = None THEN <<>> ELSE body.properties[1]

\* data.totalPages || 1
bodyTotalPages(body) ==
    IF body.totalPages = None \/ body.totalPages = Some(0)
    THEN 1 ELSE body.totalPages[1]

\* the call of fetch made by fetchProperties(filterState)
newRequest(id, filterState, loc) ==
    [id |-> id, locale |-> loc, query |-> buildQuery(filterState, loc)]

\* starting a fetch that aborts the fetches still in flight
inflightAfterFetch_abortStale(current, r) == {r}

\* the fetches in flight once fetchProperties has called fetch
inflightAfterFetch(current, r) == current \cup {r}

\* useEffect: fetchProperties(filters) up to its await of fetch
fetchProperties(filterState, loc) ==
    /\ issued < MaxFetches
    /\ issued' = issued + 1
    /\ loading' = TRUE
    /\ inflight' = inflightAfterFetch(inflight,
                                      newRequest(issued + 1, filterState, loc))
    /\ UNCHANGED <<properties, totalPages, lastLanded>>

Init ==
    /\ locale = S_en
    /\ filters = InitialFilters
    /\ properties = <<>>
    /\ totalPages = 1
    /\ loading = TRUE
    /\ issued = 1
    /\ inflight = {newRequest(1, InitialFilters, S_en)}
    /\ lastLanded = NoLanding
    /\ backing = <<>>
    /\ req = NoParams
    /\ resp = NoResponse
    /\ queryString = None

updateFilter(key, value) ==
    /\ filters' = [[filters EXCEPT ![key] = value] EXCEPT !.page = 1]
    /\ fetchProperties(filters', locale)
    /\ UNCHANGED <<locale, routeVars, queryString>>

\* toggled that appends the value whether it is in the array or not
toggled_appendsAlways(arr, value) == Append(arr, value)

\* toggled that leaves only the value in the array when it adds it
toggled_replacesAll(arr, value) ==
    IF arrayIncludes(arr, value)
    THEN SelectSeq(arr, LAMBDA item : item # value)
    ELSE <<value>>

\* prev[key].includes(value) ? prev[key].filter(item => item !== value)
\*                           : [...prev[key], value]
toggled(arr, value) ==
    IF arrayIncludes(arr, value)
    THEN SelectSeq(arr, LAMBDA item : item # value)
    ELSE Append(arr, value)

updateArrayFilter(key, value) ==
    /\ filters' = [[filters EXCEPT ![key] = toggled(filters[key], value)]
                   EXCEPT !.page = 1]
    /\ fetchProperties(filters', locale)
    /\ UNCHANGED <<locale, routeVars, queryString>>

toggleSort ==
    /\ filters' = [filters EXCEPT !.sortDirection =
                      IF filters.sortDirection = S_asc THEN S_desc ELSE S_asc]
    /\ fetchProperties(filters', locale)
    /\ UNCHANGED <<locale, routeVars, queryString>>

\* clearFilters that leaves the search text and the page as they are
clearFilters_keepsSearch ==
    /\ filters' = [InitialFilters EXCEPT !.search = filters.search,
                                         !.page = filters.page]
    /\ fetchProperties(filters', locale)
    /\ UNCHANGED <<locale, routeVars, queryString>>

clearFilters ==
    /\ filters' = InitialFilters
    /\ fetchProperties(filters', locale)
    /\ UNCHANGED <<locale, routeVars, queryString>>

changePage(newPage) ==
    /\ filters' = [filters EXCEPT !.page = newPage]
    /\ fetchProperties(filters', locale)
    /\ UNCHANGED <<locale, routeVars, queryString>>

\* the search box
ChangeSearch ==
    \E v \in SearchInputs : v # filters.search /\ updateFilter("search", v)

\* the sort select
ChangeSortBy ==
    \E v \in SortByOptions : v # filters.sortBy /\ updateFilter("sortBy", v)

\* the two price sliders
ChangeMinPrice ==
    \E n \in MinPriceInputs :
        n # filters.minPrice /\ updateFilter("minPrice", n)

ChangeMaxPrice ==
    \E n \in MaxPriceInputs :
        n # filters.maxPrice /\ updateFilter("maxPrice", n)

\* the status and type checkboxes
ToggleStatus == \E v \in StatusOptions : updateArrayFilter("status", v)

ToggleType == \E v \in TypeOptions : updateArrayFilter("type", v)

\* the Previous and Next buttons, when not disabled
PreviousPage == filters.page > 1 /\ changePage(filters.page - 1)

NextPage == filters.page < totalPages /\ changePage(filters.page + 1)

\* the language select: a new locale gives a new fetchProperties, and the
\* effect runs again
SetLocale ==
    \E l \in Locales :
        /\ l # locale
        /\ locale' = l
        /\ fetchProperties(filters, l)
        /\ UNCHANGED <<filters, routeVars, queryString>>

\* a fetch resolves and response.json() gives a body
Land ==
    \E r \in inflight : \E body \in Bodies :
        /\ properties' = bodyProperties(body)
        /\ totalPages' = bodyTotalPages(body)
        /\ loading' = FALSE
        /\ inflight' = inflight \ {r}
        /\ lastLanded' = [id |-> r.id, kind |-> "json",
                          query |-> Some(r.query), body |-> body,
                          prev |-> [id |-> lastLanded.id,
                                    kind |-> lastLanded.kind]]
        /\ UNCHANGED <<locale, filters, issued, routeVars, queryString>>

\* the backend answers with a status that is not a success and an error
\* object as its body: response.ok is not looked at and the body is read as
\* any other
LandsNotOk ==
    \E r \in inflight :
        /\ properties' = bodyProperties(NoBody)
        /\ totalPages' = bodyTotalPages(NoBody)
        /\ loading' = FALSE
        /\ inflight' = inflight \ {r}
        /\ lastLanded' = [id |-> r.id, kind |-> "notOk",
                          query |-> Some(r.query), body |-> NoBody,
                          prev |-> [id |-> lastLanded.id,
                                    kind |-> lastLanded.kind]]
        /\ UNCHANGED <<locale, filters, issued, routeVars, queryString>>

\* a catch block that leaves the displayed records as they are
propertiesAfterCatch_kept(current) == current

\* catch: setProperties([])
propertiesAfterCatch(current) == <<>>

\* a fetch rejects, or response.json() throws: the catch block
FetchFails ==
    \E r \in inflight :
        /\ properties' = propertiesAfterCatch(properties)
        /\ loading' = FALSE
        /\ inflight' = inflight \ {r}
        /\ lastLanded' = [id |-> r.id, kind |-> "error",
                          query |-> Some(r.query), body |-> NoBody,
                          prev |-> [id |-> lastLanded.id,
                                    kind |-> lastLanded.kind]]
        /\ UNCHANGED <<totalPages, locale, filters, issued, routeVars,
                       queryString>>

Next ==
    \/ ChangeSearch
    \/ ChangeSortBy
    \/ ChangeMinPrice
    \/ ChangeMaxPrice
    \/ ToggleStatus
    \/ ToggleType
    \/ toggleSort
    \/ clearFilters
    \/ PreviousPage
    \/ NextPage
    \/ SetLocale
    \/ Land
    \/ LandsNotOk
    \/ FetchFails

Spec == Init /\ [][Next]_vars

-----------------------------------------------------------------------------
(* Properties of the component: what its events do to the filters and to    *)
(* the fetches, and what it displays.                                       *)

\* the step issues exactly one fetch, for the query string of the filters
\* and the locale it leaves
OneFetchIssued ==
    /\ issued' = issued + 1
    /\ \E r \in inflight' :
           /\ r.id = issued'
           /\ r.query = buildQuery(filters', locale')
           /\ r \notin inflight
           /\ inflight' = inflight \cup {r}

\* C21: every change of the filter state issues exactly one fetch, for the
\* query string buildQuery gives for the new state, and no fetch is issued
\* by a step that changes neither the filter state nor the locale.
C21_OneFetchPerChange ==
    [][/\ (filters' # filters => OneFetchIssued)
       /\ (issued' # issued => (filters' # filters \/ locale' # locale))]_vars

\* what holds of every step that issues a fetch: it is one fetch, for the
\* new state, and setFilters or setLocale was called
C21_OneFetchPerSetState ==
    [][/\ (filters' # filters => OneFetchIssued)
       /\ (issued' # issued => (OneFetchIssued /\ FiltersOrLocaleSet))]_vars

\* one of the filters proper is changed by the step
FilterFieldChanged ==
    \E k \in {"search", "sortBy", "sortDirection", "status", "type",
              "minPrice", "maxPrice"} : filters'[k] # filters[k]

\* C22: a step that changes the search, the sort field, the sort direction,
\* the status or type array or a price bound leaves the page at 1; a page
\* other than 1 is set only by a step that changes no filter.
C22_PageResetOnFilterChange ==
    [][/\ (FilterFieldChanged => filters'.page = 1)
       /\ ((filters'.page # filters.page /\ filters'.page # 1)
           => ~FilterFieldChanged)]_vars

\* the values of an array
Members(arr) == {arr[i] : i \in 1..Len(arr)}

\* after holds the values of before with the membership of v flipped
Flipped(before, after, v) ==
    Members(after) = (IF v \in Members(before)
                      THEN Members(before) \ {v}
                      ELSE Members(before) \cup {v})

\* C23: updateArrayFilter(key, v) flips the membership of v in the status or
\* type array and of no other value, and applied twice with the same v it
\* gives back the values the array had.
C23_ToggleFlipsMembership ==
    /\ [](\A key \in {"status", "type"} :
              \A v \in StatusOptions \cup TypeOptions :
                  LET once  == toggled(filters[key], v)
                      twice == toggled(once, v)
                  IN /\ Flipped(filters[key], once, v)
                     /\ Members(twice) = Members(filters[key]))
    /\ [][/\ ToggleStatus =>
                 /\ \E v \in StatusOptions :
                        Flipped(filters.status, filters'.status, v)
                 /\ filters'.type = filters.type
          /\ ToggleType =>
                 /\ \E v \in TypeOptions :
                        Flipped(filters.type, filters'.type, v)
                 /\ filters'.status = filters.status]_vars

\* the status active was ticked, which was requested, and ticked again: the
\* status array is empty as it was
C23_Witness ==
    /\ issued = 3
    /\ filters.status = <<>>
    /\ \E r \in inflight :
           /\ r.id = 2
           /\ r.query = buildQuery([InitialFilters EXCEPT
                                        !.status = <<S_active>>], S_en)
    /\ \E r \in inflight :
           r.id = 3 /\ r.query = buildQuery(InitialFilters, S_en)

\* C25: whenever no fetch is in flight, the displayed properties and
\* totalPages are those of the response to the request built from the
\* current filters and locale.
C25_DisplayedIsResponseToCurrent ==
    (inflight = {} /\ lastLanded.kind = "json")
    => /\ lastLanded.query = Some(buildQuery(filters, locale))
       /\ DisplayedIs(lastLanded.body)

\* C26: loading is true in every state in which a fetch is in flight, and
\* false only when none is.
C26_LoadingWhileInFlight == inflight # {} => loading = TRUE

\* C28: whenever no fetch is in flight the page is within 1..totalPages.
C28_PageWithinTotalPages ==
    inflight = {} => (1 <= filters.page /\ filters.page <= totalPages)

S_reject == <<"r","e","j","e","c","t">>

S_building == <<"b","u","i","l","d","i","n","g">>

\* the values of the status and of the type checkboxes
StatusEnumeration == {S_active, S_archived, S_reject, S_draft}

TypeEnumeration == {S_house, S_villa, S_apartment, S_building}

NoDuplicates(arr) == \A i, j \in 1..Len(arr) : arr[i] = arr[j] => i = j

\* C29: whatever the controls have done, the status and type arrays hold no
\* value twice and only values of their checkboxes, sortDirection is asc or
\* desc and sortBy is last_updated, rating or price.
C29_FiltersWellFormed ==
    /\ NoDuplicates(filters.status)
    /\ Members(filters.status) \subseteq StatusEnumeration
    /\ NoDuplicates(filters.type)
    /\ Members(filters.type) \subseteq TypeEnumeration
    /\ filters.sortDirection \in {S_asc, S_desc}
    /\ filters.sortBy \in {S_last_updated, S_rating, S_price}

\* two statuses ticked one after the other
C29_Witness ==
    /\ issued = 3
    /\ filters.status = <<S_active, S_draft>>
    /\ filters.sortDirection = S_desc
    /\ filters.sortBy = S_last_updated

\* the keys of the query string, in their order
KeysOf(qs) ==
    LET pairs == parseQueryString(qs)
    IN [i \in 1..Len(pairs) |-> pairs[i][1]]

\* C30: clearFilters sets the filters to the initial state (empty search,
\* last_updated, desc, no status, no type, minPrice 0, maxPrice 1000, page
\* 1) and leaves the locale, and the query string built next holds the keys
\* locale, sortBy, sortDirection, page and limit only.
C30_ClearFiltersRestoresInitial ==
    [][clearFilters =>
           /\ filters' = [search        |-> <<>>,
                          sortBy        |-> S_last_updated,
                          sortDirection |-> S_desc,
                          status        |-> <<>>,
                          type          |-> <<>>,
                          minPrice      |-> 0,
                          maxPrice      |-> 1000,
                          page          |-> 1]
           /\ locale' = locale
           /\ KeysOf(buildQuery(filters', locale'))
                  = <<K_locale, K_sortBy, K_sortDirection, K_page, K_limit>>
           /\ \E r \in inflight' :
                  /\ r.id = issued'
                  /\ KeysOf(r.query) = <<K_locale, K_sortBy, K_sortDirection,
                                         K_page, K_limit>>]_vars

\* a search for Villa was requested, then the filters were cleared: the
\* filters are the initial ones and the last request carries no search
C30_Witness ==
    /\ issued = 3
    /\ filters = InitialFilters
    /\ \E r \in inflight :
           /\ r.id = 2
           /\ r.query = buildQuery([InitialFilters EXCEPT
                                        !.search = S_Villa], S_en)
    /\ \E r \in inflight :
           r.id = 3 /\ r.query = buildQuery(InitialFilters, S_en)

-----------------------------------------------------------------------------
(* The status and type parameters of the list route, given without a value. *)

\* C24: a status (type) parameter that is present with an empty value, as in
\* `status=`, is parsed as the empty list, and the status (type) clause
\* rejects no record.
C24_EmptyValueIsEmptySet ==
    resp.kind = "json" =>
        LET q == parseParams(req)
        IN /\ req.status = Some(<<>>) =>
                  /\ q.status = <<>>
                  /\ \A i \in 1..Len(backing) :
                         statusClause(backing[i], q.status)
           /\ req.type = Some(<<>>) =>
                  /\ q.type = <<>>
                  /\ \A i \in 1..Len(backing) : typeClause(backing[i], q.type)

-----------------------------------------------------------------------------
(* The component's fetch answered by the list route: fetchProperties sends *)
(* the query string, GET answers it, and the component reads the body.     *)

\* the filter states the component fetches with
FetchFilterStates ==
    {[InitialFilters EXCEPT !.search = s, !.status = st, !.page = pg] :
         s \in {<<>>, S_Villa}, st \in {<<>>, <<S_active>>}, pg \in {1, 2}}

\* const data = await response.json(), of the body GET answers with: it has
\* no key `properties`; its totalPages is a number, or null
dataOf(response) ==
    [properties |-> None,
     totalPages |-> IF IsInt(response.totalPages)
                    THEN Some(response.totalPages.v) ELSE None]

FetchInit ==
    /\ backing \in Backings
    /\ filters \in FetchFilterStates
    /\ locale = S_en
    /\ properties = <<>>
    /\ totalPages = 1
    /\ loading = FALSE
    /\ queryString = None
    /\ req = NoParams
    /\ resp = NoResponse
    /\ inflight = {}
    /\ issued = 0
    /\ lastLanded = NoLanding

\* fetchProperties(filters) up to its await of fetch
SendFetch ==
    /\ queryString = None
    /\ loading' = TRUE
    /\ queryString' = Some(buildQuery(filters, locale))
    /\ UNCHANGED <<routeVars, locale, filters, properties, totalPages,
                   inflight, issued, lastLanded>>

\* the list route reads the query string and answers
RouteAnswers ==
    /\ queryString # None
    /\ resp = NoResponse
    /\ req' = searchParamsOf(queryString[1])
    /\ resp' = GET(backing, req')
    /\ backing' = propertiesAfter(backing, req')
    /\ UNCHANGED <<clientVars, queryString>>

\* the component reads the body of the answer
ReceiveBody ==
    /\ loading = TRUE
    /\ resp.kind = "json"
    /\ properties' = bodyProperties(dataOf(resp))
    /\ totalPages' = bodyTotalPages(dataOf(resp))
    /\ loading' = FALSE
    /\ UNCHANGED <<routeVars, locale, filters, inflight, issued, lastLanded,
                   queryString>>

\* the route has raised: there is no JSON to read, and the catch block runs
ReceiveError ==
    /\ loading = TRUE
    /\ resp.kind = "TypeError"
    /\ properties' = propertiesAfterCatch(properties)
    /\ loading' = FALSE
    /\ UNCHANGED <<routeVars, locale, filters, totalPages, inflight, issued,
                   lastLanded, queryString>>

FetchNext == SendFetch \/ RouteAnswers \/ ReceiveBody \/ ReceiveError

SpecFetch == FetchInit /\ [][FetchNext]_vars

\* C27: once the component has read the answer of the list route, the
\* records it displays are the page of records the route returned, and its
\* totalPages is the route's (1 when that is 0).
C27_ClientStoresRoutePage ==
    (queryString # None /\ resp.kind = "json" /\ loading = FALSE)
    => /\ properties = resp.data
       /\ totalPages = (IF resp.totalPages = Int_(0)
                        THEN 1 ELSE resp.totalPages.v)

\* the half of C27 that holds: totalPages is the route's, 1 when that is 0
C27_TotalPagesIsRoutes ==
    (queryString # None /\ resp.kind = "json" /\ loading = FALSE)
    => totalPages = (IF resp.totalPages = Int_(0)
                     THEN 1 ELSE resp.totalPages.v)

====
